---- MODULE Spec2Model ----
(***************************************************************************)
(* License server (src/server.py): the licenses table, the four request   *)
(* handlers /activate, /revoke, /status/<jti>, /heartbeat, and the clock   *)
(* they read.  /activate, /revoke and /status touch the table in a single  *)
(* statement and are one step each.  /heartbeat touches it twice (SELECT,  *)
(* then UPDATE + commit on a connection in autocommit-less legacy mode,    *)
(* so the SELECT is outside the UPDATE's transaction) and reads the clock  *)
(* in between: it is three steps, and requests served by different         *)
(* threads interleave between them.                                        *)
(***************************************************************************)
EXTENDS Integers, FiniteSets, Sequences, TLC

(* ------------------------------ bounds -------------------------------- *)

\* size of the space uuid4() draws from
MaxIds == 2
\* number of request threads that can be inside /heartbeat at once
MaxProcs == 2
\* number of times the clock is observed to advance
MaxTicks == 2
\* number of requests the server receives
MaxRequests == 3

(* ----------------------------- constants ------------------------------ *)

\* 24 * 3600, seconds per day of duration_days
DaySeconds == 86400
\* default of duration_days
DefaultDays == 365

IdPool == 1 .. MaxIds
Procs == 1 .. MaxProcs

\* Python None / an absent JSON field / an absent claim
NoId == 0
Missing == "MISSING"

\* how far one observed advance of time.time() moves the clock
Deltas == {1, DaySeconds}

(* ------------------------------ inputs -------------------------------- *)

\* duration_days: absent, an integer, or a value int() rejects
DurAbsent == [kind |-> "absent", v |-> 0]
DurBad == [kind |-> "bad", v |-> 0]
DurInt(d) == [kind |-> "int", v |-> d]
DurationInputs == {DurAbsent, DurBad} \cup {DurInt(d) : d \in {-1, 0, 1}}

Data(k, h, u, d) ==
    [license_key |-> k, hwid |-> h, user |-> u, duration_days |-> d]

\* request bodies of /activate: complete ones with every duration_days,
\* one with a user, and ones with license_key or hwid absent or empty
ActivateInputs ==
    {Data("K1", "H1", Missing, d) : d \in DurationInputs}
    \cup {Data("K1", "H1", "bob", DurAbsent)}
    \cup {Data(k, "H1", Missing, DurAbsent) : k \in {Missing, ""}}
    \cup {Data("K1", h, Missing, d) : h \in {Missing, ""}, d \in {DurAbsent, DurBad}}
    \cup {Data(Missing, Missing, Missing, DurAbsent)}

\* the jti field of a /revoke body and the path parameter of /status
JtiInputs == IdPool \cup {NoId}

VARIABLES
    store,      \* the licenses table: id -> row
    clock,      \* int(time.time())
    ticks,      \* number of clock advances so far
    keyOk,      \* PRIVATE_KEY parses as an RSA private key
    served,     \* number of requests received so far
    hb,         \* per request thread: the locals of a /heartbeat in progress
    last,       \* the request that completed last: its input, the table
                \* before its write (or at its read), and its response
    revokeAcked, \* ids for which /revoke has answered {"revoked": true}
    expiredAcked, \* ids for which /heartbeat has answered {"expired": true}
    written     \* id -> the timestamps heartbeats have committed to last_seen

vars == <<store, clock, ticks, keyOk, served, hb, last, revokeAcked,
          expiredAcked, written>>

(* --------------------------- the licenses table ------------------------ *)

\* variant: license_key and hwid are bound in the wrong order
NewRowSwapped(lic_key, hwid, user, issued, expires) ==
    [license_key |-> hwid, hwid |-> lic_key, user |-> user,
     issued_at |-> issued, expires_at |-> expires,
     revoked |-> 0, last_seen |-> 0]

\* INSERT INTO licenses (id, license_key, hwid, user, issued_at, expires_at):
\* revoked and last_seen take their column defaults
NewRow(lic_key, hwid, user, issued, expires) ==
    [license_key |-> lic_key, hwid |-> hwid, user |-> user,
     issued_at |-> issued, expires_at |-> expires,
     revoked |-> 0, last_seen |-> 0]

\* variant: INSERT OR REPLACE, an existing id is overwritten
InsertFailsNever(st, id) == FALSE

\* id TEXT PRIMARY KEY: an INSERT of an existing id raises IntegrityError
InsertFails(st, id) == id \in DOMAIN st

InsertRow(st, id, row) == (id :> row) @@ st

\* variant: the UPDATE has no WHERE clause
RevokeRowAll(st, id) ==
    IF id \in DOMAIN st
    THEN [j \in DOMAIN st |-> [st[j] EXCEPT !.revoked = 1]] ELSE st

\* variant: the row is rewritten (REPLACE), so last_seen falls back to its
\* column default
RevokeRowReplace(st, id) ==
    IF id \in DOMAIN st
    THEN [st EXCEPT ![id].revoked = 1, ![id].last_seen = 0] ELSE st

\* UPDATE licenses SET revoked=1 WHERE id=?
RevokeRow(st, id) ==
    IF id \in DOMAIN st THEN [st EXCEPT ![id].revoked = 1] ELSE st

\* variant: a rowcount that counts only the rows whose value changed
RevokeCountChanged(st, id) ==
    IF id \in DOMAIN st /\ st[id].revoked = 0 THEN 1 ELSE 0

\* variant: the rowcount is not consulted
RevokeCountAlways(st, id) == 1

\* c.rowcount of that UPDATE
RevokeCount(st, id) == IF id \in DOMAIN st THEN 1 ELSE 0

\* variant: the row is rewritten (REPLACE), so revoked falls back to its
\* column default
TouchLastSeenReplace(st, id, ts) ==
    IF id \in DOMAIN st
    THEN [st EXCEPT ![id].last_seen = ts, ![id].revoked = 0] ELSE st

\* variant: a heartbeat renews the license for a day
TouchLastSeenRenew(st, id, ts) ==
    IF id \in DOMAIN st
    THEN [st EXCEPT ![id].last_seen = ts, ![id].expires_at = ts + 86400]
    ELSE st

\* variant: only a live license is touched
TouchLastSeenLiveOnly(st, id, ts) ==
    IF id \in DOMAIN st /\ st[id].revoked = 0 /\ ts <= st[id].expires_at
    THEN [st EXCEPT ![id].last_seen = ts] ELSE st

\* UPDATE licenses SET last_seen=? WHERE id=?
TouchLastSeen(st, id, ts) ==
    IF id \in DOMAIN st THEN [st EXCEPT ![id].last_seen = ts] ELSE st

(* ------------------------------- tokens -------------------------------- *)

\* the payload dict built by activate
Payload(lic_id, lic_key, user, hwid, issued, expires) ==
    [jti |-> lic_id, sub |-> lic_key, user |-> user, hwid |-> hwid,
     iat |-> issued, exp |-> expires, features |-> [bot |-> TRUE]]

\* jwt.encode(payload, PRIVATE_KEY, algorithm="RS256")
sign_license(payload) == [fmt |-> "jwt", payload |-> payload, sig |-> "valid"]

\* the token activate issued for a row of the table
IssuedToken(st, id) ==
    sign_license(Payload(id, st[id].license_key, st[id].user, st[id].hwid,
                         st[id].issued_at, st[id].expires_at))

\* tokens a client can send: none, a string that is no JWT, a token the
\* server issued, or a JWT-shaped token signed with some other key, with
\* any jti or with no jti claim
NoToken == [fmt |-> "none", payload |-> [none |-> TRUE], sig |-> "none"]
Garbage == [fmt |-> "garbage", payload |-> [none |-> TRUE], sig |-> "none"]
ForgedTokens ==
    {[fmt |-> "jwt", payload |-> [jti |-> j], sig |-> "forged"] : j \in IdPool}
    \cup {[fmt |-> "jwt", payload |-> [sub |-> "K1"], sig |-> "forged"]}
TokenInputs(st) ==
    {NoToken, Garbage} \cup ForgedTokens
    \cup {IssuedToken(st, id) : id \in DOMAIN st}

\* jwt.decode(token, options={"verify_signature": False}) raises
DecodeFails(token) == token.fmt # "jwt"

\* payload.get("jti")
GetJti(payload) == IF "jti" \in DOMAIN payload THEN payload.jti ELSE NoId

(* ------------------------------ responses ------------------------------ *)

ErrBody(msg) == [error |-> msg]
\* an exception no handler catches: Flask answers 500
Unhandled(exc) == [code |-> 500, body |-> [exception |-> exc]]
Reply(code, body) == [code |-> code, body |-> body]

IdleHb ==
    [pc |-> "idle", jti |-> NoId, sig |-> "none", revoked |-> 0,
     expires_at |-> 0, now |-> 0, afterRevoke |-> FALSE,
     afterExpired |-> FALSE]

Init ==
    /\ store = << >>
    /\ clock = 0
    /\ ticks = 0
    /\ keyOk \in BOOLEAN
    /\ served = 0
    /\ hb = [p \in Procs |-> IdleHb]
    /\ last = [op |-> "none"]
    /\ revokeAcked = {}
    /\ expiredAcked = {}
    /\ written = [id \in IdPool |-> {}]

(* ------------------------------- the clock ----------------------------- *)

Tick ==
    /\ ticks < MaxTicks
    /\ \E d \in Deltas : clock' = clock + d
    /\ ticks' = ticks + 1
    /\ UNCHANGED <<store, keyOk, served, hb, last, revokeAcked, expiredAcked,
                 written>>

(* ------------------------------- /activate ----------------------------- *)

\* int(data.get("duration_days", 365)) raises
DurationRaises(dur) == dur.kind = "bad"
DurationDays(dur) == IF dur.kind = "absent" THEN DefaultDays ELSE dur.v

\* not lic_key or not hwid
Falsy(s) == s = Missing \/ s = ""

\* data.get("user", "")
UserOf(u) == IF u = Missing THEN "" ELSE u

\* variant: the factor 24 is dropped
ExpiresHours(issued, duration) == issued + duration * 3600

\* expires = issued + duration * 24 * 3600
Expires(issued, duration) == issued + duration * 24 * 3600

\* the response and the table after activate(data); uuid4() returns lic_id
\* and time.time() returns now when the handler gets that far
ActivateOutcome(st, data, lic_id, now, key_ok) ==
    LET duration == DurationDays(data.duration_days)
        user == UserOf(data.user)
        issued == now
        expires == Expires(issued, duration)
        payload == Payload(lic_id, data.license_key, user, data.hwid,
                           issued, expires)
        token == sign_license(payload)
    IN  IF DurationRaises(data.duration_days)
        THEN [resp |-> Unhandled("ValueError"), st |-> st, drawn |-> NoId]
        ELSE IF Falsy(data.license_key) \/ Falsy(data.hwid)
        THEN [resp |-> Reply(400, ErrBody("license_key and hwid required")),
              st |-> st, drawn |-> NoId]
        ELSE IF ~key_ok
        THEN [resp |-> Unhandled("InvalidKeyError"), st |-> st,
              drawn |-> lic_id]
        ELSE IF InsertFails(st, lic_id)
        THEN [resp |-> Unhandled("IntegrityError"), st |-> st,
              drawn |-> lic_id]
        ELSE [resp |-> Reply(200, [token |-> token, jti |-> lic_id,
                                   expires_at |-> expires]),
              st |-> InsertRow(st, lic_id,
                               NewRow(data.license_key, data.hwid, user,
                                      issued, expires)),
              drawn |-> lic_id]

Activate ==
    /\ served < MaxRequests
    /\ \E data \in ActivateInputs, lic_id \in IdPool :
        LET out == ActivateOutcome(store, data, lic_id, clock, keyOk)
        IN  /\ store' = out.st
            /\ last' = [op |-> "activate", data |-> data,
                        lic_id |-> out.drawn, now |-> clock,
                        before |-> store, resp |-> out.resp]
    /\ served' = served + 1
    /\ UNCHANGED <<clock, ticks, keyOk, hb, revokeAcked, expiredAcked, written>>

(* -------------------------------- /revoke ------------------------------ *)

RevokeOutcome(st, jti) ==
    IF jti = NoId
    THEN [resp |-> Reply(400, ErrBody("jti required")), st |-> st]
    ELSE IF RevokeCount(st, jti) = 0
    THEN [resp |-> Reply(404, ErrBody("not found")), st |-> RevokeRow(st, jti)]
    ELSE [resp |-> Reply(200, [revoked |-> TRUE]), st |-> RevokeRow(st, jti)]

Revoke ==
    /\ served < MaxRequests
    /\ \E jti \in JtiInputs :
        LET out == RevokeOutcome(store, jti)
        IN  /\ store' = out.st
            /\ last' = [op |-> "revoke", jti |-> jti, before |-> store,
                        resp |-> out.resp]
            /\ revokeAcked' = IF out.resp.code = 200
                              THEN revokeAcked \cup {jti} ELSE revokeAcked
    /\ served' = served + 1
    /\ UNCHANGED <<clock, ticks, keyOk, hb, expiredAcked, written>>

(* -------------------------------- /status ------------------------------ *)

\* the JSON object status builds from the selected columns
StatusBody(id, r) ==
    [id |-> id, license_key |-> r.license_key, hwid |-> r.hwid,
     issued_at |-> r.issued_at, expires_at |-> r.expires_at,
     revoked |-> (r.revoked # 0), last_seen |-> r.last_seen]

StatusOutcome(st, jti) ==
    IF jti \notin DOMAIN st
    THEN Reply(404, ErrBody("not found"))
    ELSE Reply(200, StatusBody(jti, st[jti]))

Status ==
    /\ served < MaxRequests
    /\ \E jti \in IdPool :
        last' = [op |-> "status", jti |-> jti, before |-> store,
                 resp |-> StatusOutcome(store, jti)]
    /\ served' = served + 1
    /\ UNCHANGED <<store, clock, ticks, keyOk, hb, revokeAcked, expiredAcked,
                 written>>

(* ------------------------------- /heartbeat ---------------------------- *)

\* variant: expiry is tested before revocation
VerdictExpiredFirst(revoked, now, expires_at) ==
    IF now > expires_at THEN [expired |-> TRUE]
    ELSE IF revoked # 0 THEN [revoked |-> TRUE]
    ELSE [ok |-> TRUE, expires_at |-> expires_at]

\* variant: the license already counts as expired at now = expires_at
VerdictInclusive(revoked, now, expires_at) ==
    IF revoked # 0 THEN [revoked |-> TRUE]
    ELSE IF now >= expires_at THEN [expired |-> TRUE]
    ELSE [ok |-> TRUE, expires_at |-> expires_at]

\* the three returns after the UPDATE
Verdict(revoked, now, expires_at) ==
    IF revoked # 0 THEN [revoked |-> TRUE]
    ELSE IF now > expires_at THEN [expired |-> TRUE]
    ELSE [ok |-> TRUE, expires_at |-> expires_at]

HbDone(p, token, jti, resp) ==
    [op |-> "heartbeat", proc |-> p, token |-> token, jti |-> jti,
     revoked |-> hb[p].revoked, expires_at |-> hb[p].expires_at,
     now |-> hb[p].now, afterRevoke |-> hb[p].afterRevoke,
     afterExpired |-> hb[p].afterExpired,
     before |-> store, resp |-> resp]

\* from the start of the handler to the SELECT and its fetchone()
HbLookup(p) ==
    /\ served < MaxRequests
    /\ hb[p].pc = "idle"
    /\ served' = served + 1
    /\ \E token \in TokenInputs(store) :
        LET jti == GetJti(token.payload)
        IN  IF token.fmt = "none"
            THEN /\ last' = HbDone(p, token, NoId,
                                   Reply(400, ErrBody("token required")))
                 /\ hb' = hb
            ELSE IF DecodeFails(token)
            THEN /\ last' = HbDone(p, token, NoId,
                                   Reply(400, ErrBody("invalid token")))
                 /\ hb' = hb
            ELSE IF jti \notin DOMAIN store
            THEN /\ last' = HbDone(p, token, jti,
                                   Reply(404, ErrBody("not found")))
                 /\ hb' = hb
            ELSE /\ hb' = [hb EXCEPT ![p] =
                            [pc |-> "selected", jti |-> jti, sig |-> token.sig,
                             revoked |-> store[jti].revoked,
                             expires_at |-> store[jti].expires_at,
                             now |-> 0,
                             afterRevoke |-> jti \in revokeAcked,
                             afterExpired |-> jti \in expiredAcked]]
                 /\ last' = last
    /\ UNCHANGED <<store, clock, ticks, keyOk, revokeAcked, expiredAcked,
                   written>>

\* now = int(time.time())
HbClock(p) ==
    /\ hb[p].pc = "selected"
    /\ hb' = [hb EXCEPT ![p].pc = "timed", ![p].now = clock]
    /\ UNCHANGED <<store, clock, ticks, keyOk, served, last, revokeAcked,
                   expiredAcked, written>>

\* the UPDATE, its commit, and the response
HbCommit(p) ==
    /\ hb[p].pc = "timed"
    /\ store' = TouchLastSeen(store, hb[p].jti, hb[p].now)
    /\ last' = HbDone(p, [fmt |-> "jwt", payload |-> [jti |-> hb[p].jti],
                          sig |-> hb[p].sig], hb[p].jti,
                      Reply(200, Verdict(hb[p].revoked, hb[p].now,
                                         hb[p].expires_at)))
    /\ hb' = [hb EXCEPT ![p] = IdleHb]
    /\ written' = [written EXCEPT ![hb[p].jti] = @ \cup {hb[p].now}]
    /\ expiredAcked' =
        IF "expired" \in DOMAIN Verdict(hb[p].revoked, hb[p].now,
                                        hb[p].expires_at)
        THEN expiredAcked \cup {hb[p].jti} ELSE expiredAcked
    /\ UNCHANGED <<clock, ticks, keyOk, served, revokeAcked>>

Heartbeat == \E p \in Procs : HbLookup(p) \/ HbClock(p) \/ HbCommit(p)

Next ==
    \/ Tick
    \/ Activate
    \/ Revoke
    \/ Status
    \/ \E p \in Procs : HbLookup(p)
    \/ \E p \in Procs : HbClock(p)
    \/ \E p \in Procs : HbCommit(p)

Spec == Init /\ [][Next]_vars

(* =============================== properties ============================ *)

NotFound == Reply(404, ErrBody("not found"))
InvalidInput == Reply(400, ErrBody("license_key and hwid required"))

\* the last completed request is a /heartbeat whose jti names a row
HbOnRow == last.op = "heartbeat" /\ last.jti \in DOMAIN store

(* C1: once /revoke has answered success for an id, a /heartbeat that     *)
(* starts afterwards with that jti reads revoked = 1 and answers          *)
(* {revoked: true}, whatever the clock is relative to expires_at.         *)
C1_RevocationPrecedence ==
    /\ \A p \in Procs :
        hb[p].pc # "idle" /\ hb[p].afterRevoke => hb[p].revoked = 1
    /\ last.op = "heartbeat" /\ last.afterRevoke
        => last.resp = Reply(200, [revoked |-> TRUE])

\* a heartbeat started after the revocation of an already expired license
C1_Witness ==
    /\ last.op = "heartbeat" /\ last.afterRevoke
    /\ last.now > last.expires_at
    /\ last.resp.code = 200

(* C2: revoked is a one-way latch: no step takes a row whose revoked flag *)
(* is 1 to a state where the row is gone or its flag is 0.                *)
C2_RevokedLatch ==
    [][\A id \in DOMAIN store :
        store[id].revoked = 1
            => id \in DOMAIN store' /\ store'[id].revoked = 1]_vars

\* a heartbeat has written to a revoked row, which is still revoked
C2_Witness ==
    /\ HbOnRow
    /\ last.before[last.jti].revoked = 1
    /\ store[last.jti].revoked = 1
    /\ store # last.before

(* C3: a /heartbeat whose jti names a row answers 200 with exactly one of *)
(* {revoked}, {expired}, {ok, expires_at}: revoked iff the flag its       *)
(* lookup read is set; otherwise expired iff now > the row's expires_at   *)
(* (strictly); otherwise ok with the row's stored expires_at.             *)
C3_HeartbeatClassification ==
    HbOnRow =>
        LET b == last.resp.body
            row == store[last.jti]
        IN  /\ last.resp.code = 200
            /\ DOMAIN b \in {{"revoked"}, {"expired"}, {"ok", "expires_at"}}
            /\ "revoked" \in DOMAIN b <=> last.revoked # 0
            /\ "expired" \in DOMAIN b
                <=> (last.revoked = 0 /\ last.now > row.expires_at)
            /\ "ok" \in DOMAIN b
                <=> (last.revoked = 0 /\ last.now <= row.expires_at)
            /\ "ok" \in DOMAIN b
                => b.ok = TRUE /\ b.expires_at = row.expires_at

\* a heartbeat at exactly now = expires_at, later than the issue time
C3_Witness ==
    /\ HbOnRow
    /\ last.revoked = 0
    /\ last.now = store[last.jti].expires_at
    /\ last.now > store[last.jti].issued_at
    /\ "ok" \in DOMAIN last.resp.body

(* C4: a /heartbeat whose jti names a row leaves that row's last_seen     *)
(* equal to the time the handler read, also when it answers revoked or    *)
(* expired.                                                               *)
C4_HeartbeatTouches ==
    HbOnRow => store[last.jti].last_seen = last.now

\* an expired verdict on a row whose last_seen the heartbeat moved
C4_Witness ==
    /\ HbOnRow
    /\ "expired" \in DOMAIN last.resp.body
    /\ last.now > 0
    /\ last.before[last.jti].last_seen # last.now
    /\ store[last.jti].last_seen = last.now

(* C5: /activate with license_key or hwid missing or empty answers        *)
(* InvalidInput, leaves the table as it was and produces no token.        *)
C5_InvalidInputNoEffects ==
    (/\ last.op = "activate"
     /\ (Falsy(last.data.license_key) \/ Falsy(last.data.hwid)))
        => /\ last.resp = InvalidInput
           /\ store = last.before
           /\ "token" \notin DOMAIN last.resp.body

(* C6: /revoke of an existing id answers success every time, status then  *)
(* shows revoked = true, and a /revoke of an already revoked row leaves   *)
(* the table as it was.                                                   *)
C6_RevokeIdempotent ==
    (last.op = "revoke" /\ last.jti \in DOMAIN last.before)
        => /\ last.resp = Reply(200, [revoked |-> TRUE])
           /\ StatusOutcome(store, last.jti).code = 200
           /\ StatusOutcome(store, last.jti).body.revoked = TRUE
           /\ last.before[last.jti].revoked = 1 => store = last.before

\* a /revoke of a row that was already revoked
C6_Witness ==
    /\ last.op = "revoke"
    /\ last.jti \in DOMAIN last.before
    /\ last.before[last.jti].revoked = 1
    /\ last.resp.code = 200

(* C7: /status, /revoke and /heartbeat for an id that names no row answer *)
(* NotFound and leave the table as it was.                                *)
C7_UnknownIdNotFound ==
    (/\ last.op \in {"status", "revoke", "heartbeat"}
     /\ last.jti \in IdPool
     /\ last.jti \notin DOMAIN last.before)
        => /\ last.resp = NotFound
           /\ store = last.before

\* a /revoke of an unknown id while another license exists
C7_Witness ==
    /\ last.op = "revoke"
    /\ last.jti \in IdPool
    /\ last.jti \notin DOMAIN last.before
    /\ DOMAIN store # {}

(* C8: a successful /activate with a non-negative integer duration_days   *)
(* stores expires_at - issued_at = duration_days * 86400 (365 * 86400     *)
(* when duration_days is absent), and the expires_at of the response, the *)
(* exp claim of the token and the stored expires_at are equal.            *)
C8_ExpiryArithmetic ==
    (last.op = "activate" /\ last.resp.code = 200)
        => LET b == last.resp.body
               row == store[b.jti]
               d == last.data.duration_days
           IN  /\ b.jti \in DOMAIN store
               /\ (d.kind = "int" /\ d.v >= 0)
                    => row.expires_at - row.issued_at = d.v * 86400
               /\ d.kind = "absent"
                    => row.expires_at - row.issued_at = 365 * 86400
               /\ b.expires_at = row.expires_at
               /\ b.token.payload.exp = row.expires_at

\* an activation for one day at a time after the epoch of the model
C8_Witness ==
    /\ last.op = "activate" /\ last.resp.code = 200
    /\ last.data.duration_days = DurInt(1)
    /\ last.now > 0
    /\ store[last.resp.body.jti].expires_at = last.now + 86400

(* C9: every row satisfies expires_at > issued_at, for every              *)
(* duration_days /activate accepts.                                       *)
C9_ExpiresAfterIssued ==
    \A id \in DOMAIN store : store[id].expires_at > store[id].issued_at

(* C10: last_seen of a row never decreases, also when heartbeats for the  *)
(* same id overlap.                                                       *)
C10_LastSeenMonotone ==
    [][\A id \in DOMAIN store :
        id \in DOMAIN store'
            /\ store'[id].last_seen >= store[id].last_seen]_vars

(* C11: ids are unique and immutable: a successful /activate returns an   *)
(* id no row had and adds exactly that row, and no step removes a row or  *)
(* changes its license_key, hwid, user, issued_at or expires_at.          *)
C11_IdsUniqueImmutable ==
    [][/\ \A id \in DOMAIN store :
            /\ id \in DOMAIN store'
            /\ store'[id].license_key = store[id].license_key
            /\ store'[id].hwid = store[id].hwid
            /\ store'[id].user = store[id].user
            /\ store'[id].issued_at = store[id].issued_at
            /\ store'[id].expires_at = store[id].expires_at
       /\ (/\ store' # store
           /\ last'.op = "activate"
           /\ last'.resp.code = 200)
            => /\ last'.resp.body.jti \notin DOMAIN store
               /\ DOMAIN store' = DOMAIN store \cup {last'.resp.body.jti}]_vars

\* a second successful activation
C11_Witness ==
    /\ last.op = "activate" /\ last.resp.code = 200
    /\ DOMAIN last.before # {}
    /\ Cardinality(DOMAIN store) = 2

(* C12: /status of an existing row answers every field of the row, id,    *)
(* license_key, hwid, user, issued_at, expires_at, last_seen, with the    *)
(* stored value, and revoked as a boolean.                                *)
C12_StatusFullProjection ==
    (last.op = "status" /\ last.jti \in DOMAIN store)
        => LET b == last.resp.body
               row == store[last.jti]
           IN  /\ last.resp.code = 200
               /\ DOMAIN b = {"id", "license_key", "hwid", "user",
                              "issued_at", "expires_at", "revoked",
                              "last_seen"}
               /\ b.id = last.jti
               /\ b.license_key = row.license_key
               /\ b.hwid = row.hwid
               /\ b.user = row.user
               /\ b.issued_at = row.issued_at
               /\ b.expires_at = row.expires_at
               /\ b.last_seen = row.last_seen
               /\ b.revoked = (row.revoked # 0)

(* C13: /heartbeat with a token that decodes but has no jti claim answers *)
(* InvalidToken, as for an undecodable token, and changes no row.         *)
C13_NoJtiInvalidToken ==
    (/\ last.op = "heartbeat"
     /\ last.token.fmt = "jwt"
     /\ "jti" \notin DOMAIN last.token.payload)
        => /\ last.resp = Reply(400, ErrBody("invalid token"))
           /\ store = last.before

(* C14: every /activate ends in success or in a value-level error, never  *)
(* in an unhandled exception, and an error outcome leaves the table as it *)
(* was.                                                                   *)
C14_ActivateNoUnhandled ==
    last.op = "activate"
        => /\ last.resp.code # 500
           /\ "exception" \notin DOMAIN last.resp.body
           /\ last.resp.code # 200 => store = last.before

(* C15: /heartbeat answers ok if and only if the token carries a valid    *)
(* signature and its row is live (exists, revoked flag read as 0,         *)
(* now <= expires_at); never for a forged token.                          *)
C15_OkIffSignedAndLive ==
    last.op = "heartbeat"
        => ("ok" \in DOMAIN last.resp.body
            <=> /\ last.token.sig = "valid"
                /\ last.jti \in DOMAIN store
                /\ last.revoked = 0
                /\ last.now <= store[last.jti].expires_at)

(* C16: frame: a step that changes the table is a successful /activate    *)
(* that adds one row and leaves the others, a /revoke that changes at     *)
(* most revoked of the row it names, or a /heartbeat that changes at most *)
(* last_seen of the row its jti names; /status and failed requests change *)
(* nothing and no row is ever removed.                                    *)
C16_Frame ==
    [][store' # store =>
        \/ /\ last'.op = "activate" /\ last'.resp.code = 200
           /\ last'.resp.body.jti \notin DOMAIN store
           /\ DOMAIN store' = DOMAIN store \cup {last'.resp.body.jti}
           /\ \A j \in DOMAIN store : store'[j] = store[j]
        \/ /\ last'.op = "revoke"
           /\ DOMAIN store' = DOMAIN store
           /\ \A j \in DOMAIN store :
                store[j] = IF j = last'.jti
                           THEN [store'[j] EXCEPT !.revoked = store[j].revoked]
                           ELSE store'[j]
        \/ /\ last'.op = "heartbeat"
           /\ DOMAIN store' = DOMAIN store
           /\ \A j \in DOMAIN store :
                store[j] = IF j = last'.jti
                           THEN [store'[j] EXCEPT
                                    !.last_seen = store[j].last_seen]
                           ELSE store'[j]]_vars

\* a /revoke of one of two rows
C16_Witness ==
    /\ last.op = "revoke" /\ last.resp.code = 200
    /\ Cardinality(DOMAIN store) = 2
    /\ store # last.before
    /\ \E j \in DOMAIN store : j # last.jti /\ store[j].revoked = 0

(* C17: no lost update: whatever the interleaving of /revoke and          *)
(* /heartbeat requests for an id, the row of an id whose /revoke has      *)
(* answered has revoked = 1, and last_seen is a timestamp a heartbeat     *)
(* committed for that id once one has (the column default until then).    *)
C17_NoLostUpdate ==
    \A id \in DOMAIN store :
        /\ id \in revokeAcked => store[id].revoked = 1
        /\ written[id] # {} => store[id].last_seen \in written[id]
        /\ written[id] = {} => store[id].last_seen = 0

\* a /revoke committed between a heartbeat's SELECT and its UPDATE
C17_Witness ==
    /\ HbOnRow
    /\ last.revoked = 0
    /\ last.jti \in revokeAcked
    /\ last.now > 0
    /\ store[last.jti].revoked = 1
    /\ store[last.jti].last_seen = last.now

(* C18: a /heartbeat never answers ok when the revoked flag of its row    *)
(* was already 1 when its last_seen write was committed.                  *)
C18_HeartbeatAtomic ==
    (HbOnRow /\ "ok" \in DOMAIN last.resp.body)
        => last.before[last.jti].revoked = 0

(* C19: with a clock that never goes backwards, a /heartbeat that starts  *)
(* after a heartbeat for the same license has answered expired never      *)
(* answers ok.                                                            *)
C19_ExpiredTerminal ==
    /\ \A p \in Procs :
        hb[p].pc = "timed" /\ hb[p].afterExpired
            => hb[p].now > hb[p].expires_at
    /\ last.op = "heartbeat" /\ last.afterExpired
        => /\ last.resp.code = 200
           /\ DOMAIN last.resp.body \in {{"expired"}, {"revoked"}}

\* a second expired verdict, at a later time than the first
C19_Witness ==
    /\ last.op = "heartbeat" /\ last.afterExpired
    /\ "expired" \in DOMAIN last.resp.body
    /\ last.before[last.jti].last_seen < last.now

(* C20: when /activate answers {token, jti, expires_at} the table holds   *)
(* exactly one new row, under the returned id, which is the token's jti;  *)
(* its license_key, hwid and user are the inputs and the token's sub,     *)
(* hwid and user; its issued_at and expires_at are the token's iat and    *)
(* exp; revoked is 0 and last_seen is 0; when signing fails no row is     *)
(* left behind.                                                           *)
C20_ActivatePostcondition ==
    last.op = "activate"
        => /\ last.resp.code = 200
                => LET b == last.resp.body
                       t == b.token.payload
                       row == store[b.jti]
                   IN  /\ b.jti \notin DOMAIN last.before
                       /\ DOMAIN store = DOMAIN last.before \cup {b.jti}
                       /\ \A j \in DOMAIN last.before :
                            store[j] = last.before[j]
                       /\ b.token.sig = "valid"
                       /\ t.jti = b.jti
                       /\ row.license_key = last.data.license_key
                       /\ row.license_key = t.sub
                       /\ row.hwid = last.data.hwid
                       /\ row.hwid = t.hwid
                       /\ row.user = IF last.data.user = Missing
                                     THEN "" ELSE last.data.user
                       /\ row.user = t.user
                       /\ row.issued_at = t.iat
                       /\ row.issued_at = last.now
                       /\ row.expires_at = t.exp
                       /\ row.revoked = 0
                       /\ row.last_seen = 0
           /\ last.resp = Unhandled("InvalidKeyError")
                => store = last.before

\* an activation with a user, next to an existing license
C20_Witness ==
    /\ last.op = "activate" /\ last.resp.code = 200
    /\ last.data.user = "bob"
    /\ DOMAIN last.before # {}
    /\ store[last.resp.body.jti].user = "bob"
====
